---- MODULE Spec2Model ----
(***************************************************************************)
(* A model of the kvs storage engine (src/kvs/src/lib.rs): an append-only  *)
(* log kept in one active segment (db.active) and numbered immutable       *)
(* segments (<N>.immutable), an in-memory index from keys to the place of  *)
(* their latest Set record, rotation of the active segment and compaction  *)
(* of the immutable ones.                                                  *)
(*                                                                         *)
(* The file system is modelled by inodes: a directory entry names an       *)
(* inode, an open handle (Rc<File>) holds an inode, and an unlinked inode  *)
(* stays readable as long as a handle holds it (POSIX).                    *)
(***************************************************************************)
EXTENDS Integers, Sequences, FiniteSets, TLC

\* ------------------------------------------------------------------ bounds

Keys == {"x", "y"}
KeyOrder == <<"x", "y">>

\* KvStore::FILE_ROTATION_TRESHOLD (150 in the source), scaled down
FILE_ROTATION_TRESHOLD == 2

\* KvStore::COMPACTION_TRESHOLD (5 in the source), scaled down
COMPACTION_TRESHOLD == 2

\* the number of successful set and remove operations of a behaviour; the
\* engine never inspects a value, so the n-th of them, if a set, writes the
\* value n, which no earlier set wrote
MaxOps == 7

\* the number of times a behaviour drops the store and opens it again
MaxOpens == 1

\* the number of successful set and remove operations of a behaviour of
\* one store instance that is never opened again (LongSpec)
MaxLongOps == 11

\* the number of successful set and remove operations of a behaviour in
\* which other files are put into the directory (ForeignSpec)
MaxForeignOps == 3

\* the number of files, other than the segments of the store, that are put
\* into the directory
MaxForeignFiles == 2

\* the number of times a behaviour of ForeignSpec opens the directory again
MaxForeignOpens == 2

\* the number of successful set and remove operations of a behaviour in
\* which a file of the store is changed from outside (TamperSpec)
MaxTamperOps == 3

\* the number of successful set and remove operations of a behaviour in
\* which a mutation fails before it writes its record (FaultSpec)
MaxFaultOps == 5

\* the request handlers of the server that can run at a time, and the
\* requests the server receives in a behaviour (ServerSpec)
MaxHandlers == 2
MaxRequests == 3

\* the greatest length, in characters, of a key, a value or a message of
\* a command that is encoded (CodecSpec)
MaxStrLen == 2

\* the operations of a store that has lived long: the first ones, which set
\* one key, and all of them
AgedWarmOps == 12
MaxAgedOps == 17

\* the number of set and remove operations after which a record that was
\* overwritten or removed is checked to be reclaimed: the operations that
\* fill COMPACTION_TRESHOLD + 1 segments
ReclaimBound == FILE_ROTATION_TRESHOLD * (COMPACTION_TRESHOLD + 1)

\* ------------------------------------------------------------------ records

\* Command::Set { key, value, version }
CommandSet(k, v, ver) == [type |-> "Set", key |-> k, value |-> v, version |-> ver]

\* Command::Remove { key }
CommandRemove(k) == [type |-> "Remove", key |-> k, value |-> 0, version |-> 0]

\* the number of bytes serde_json::to_string produces for a command; the
\* two variants encode to different lengths
EncLen(cmd) == IF cmd.type = "Set" THEN 2 ELSE 1

RECURSIVE FileLen(_)
\* the length in bytes of a segment: SeekFrom::End(0)
FileLen(recs) == IF recs = <<>> THEN 0 ELSE EncLen(Head(recs)) + FileLen(Tail(recs))

\* the byte offset at which the i-th record of a segment starts
StartOf(recs, i) == FileLen(SubSeq(recs, 1, i - 1))

\* results of get: Ok(None), Ok(Some(v)), Err(Consistency)
None == <<"None", 0>>
Some(v) == <<"Some", v>>
ConsistencyError == <<"Err", 0>>

\* ------------------------------------------------------------------ helpers

RECURSIVE Orders(_)
\* every order in which the elements of a finite set may be enumerated
Orders(S) ==
    IF S = {} THEN {<<>>}
    ELSE UNION {{<<e>> \o t : t \in Orders(S \ {e})} : e \in S}

RECURSIVE Digits(_)
\* the decimal digits of a counter, as format!("{}.immutable", n) prints them
Digits(n) == IF n < 10 THEN <<n>> ELSE Digits(n \div 10) \o <<n % 10>>

RECURSIVE LexLess(_, _)
\* byte-wise order of two file names <digits>.immutable: the '.' that ends
\* the shorter stem is smaller than every digit
LexLess(a, b) ==
    IF a = <<>> THEN b # <<>>
    ELSE IF b = <<>> THEN FALSE
    ELSE IF Head(a) # Head(b) THEN Head(a) < Head(b)
    ELSE LexLess(Tail(a), Tail(b))

\* Ord of PathBuf on two immutable segments of one directory
PathLess(m, n) == LexLess(Digits(m), Digits(n))

RECURSIVE SortPaths(_)
\* Vec<PathBuf>::sort of the immutable segments with counters S
SortPaths(S) ==
    IF S = {} THEN <<>>
    ELSE LET m == CHOOSE c \in S : \A d \in S \ {c} : PathLess(c, d)
         IN  <<m>> \o SortPaths(S \ {m})

\* HashMap::insert
MapInsert(m, k, v) == [j \in DOMAIN m \cup {k} |-> IF j = k THEN v ELSE m[j]]

\* HashMap::remove
MapRemove(m, k) == [j \in DOMAIN m \ {k} |-> m[j]]

EmptyMap == [j \in {} |-> 0]

\* ------------------------------------------------------------------ state

VARIABLES
    files,          \* file system: inode -> the records stored in it
    immutables,     \* directory: counter N -> inode of <N>.immutable
    active,         \* directory: inode of db.active
    active_for_write,                   \* KvStore.active_for_write
    active_for_read,                    \* KvStore.active_for_read
    active_entries,                     \* KvStore.active_entries
    immutable_counter,                  \* KvStore.immutable_counter
    immutables_since_last_compaction,   \* KvStore.immutables_since_last_compaction
    values,         \* KvStore.values: key -> ValuePointer
    trace,          \* history: the steps the last operation took
    last,           \* history: the last operation, its result, get before it
    hist,           \* history: per key, its last mutation by this instance
    ops,            \* history: the number of successful set and remove so far
    opens,          \* history: the number of times the store was opened again
    written,        \* history: per key, the value last set (0: none, removed)
    age,            \* history: per obsolete value on disk, the number of
                    \* successful set and remove since it became obsolete
    sets,           \* history: per key, the number of Set commands that set
                    \* wrote for it, in every store instance
    others,         \* directory: the names of the files that are not segments
    status,         \* "open": a store instance lives, "closed": it was
                    \* dropped, "none": KvStore::open returned an error,
                    \* "tampered": an instance lives and a file it holds
                    \* was changed from outside, "failed": an instance
                    \* lives and a mutation of it returned an error
    server,         \* kvs-server: for every request handler, where it is,
                    \* its request, the store it opened, and the reply and
                    \* the output of the client for its last request
    codec           \* redis-protocol: a command, the bytes serialize made
                    \* of it and what deserialize made of the bytes

vars == <<files, immutables, active, active_for_write,
          active_for_read, active_entries, immutable_counter,
          immutables_since_last_compaction, values, trace, last, hist, ops, opens,
          written, age, sets, others, status, server, codec>>

\* struct ValuePointer { file, offset, version }
ValuePointer(f, off, ver) == [file |-> f, offset |-> off, version |-> ver]

\* the store and its directory as one value, at the start of an operation
Cur ==
    [files |-> files, immutables |-> immutables, active |-> active,
     active_for_write |-> active_for_write, active_for_read |-> active_for_read,
     active_entries |-> active_entries, immutable_counter |-> immutable_counter,
     immutables_since_last_compaction |-> immutables_since_last_compaction,
     values |-> values, trace |-> <<>>]

\* ------------------------------------------------------------------ reading

\* KvStore::read_at_offset: seek to the offset, decode one command
read_at_offset(recs, offset) ==
    LET at == {i \in 1..Len(recs) : StartOf(recs, i) = offset}
    IN  IF at = {} THEN ConsistencyError
        ELSE LET cmd == recs[CHOOSE i \in at : TRUE]
             IN  IF cmd.type = "Set" THEN Some(cmd.value) ELSE ConsistencyError

\* KvStore::get
get(s, key) ==
    IF key \notin DOMAIN s.values THEN None
    ELSE read_at_offset(s.files[s.values[key].file], s.values[key].offset)

\* what get returns for every key
Gets(s) == [k \in Keys |-> get(s, k)]

\* the keys whose index entry refers to an inode
Holders(s, inode) == {k \in DOMAIN s.values : s.values[k].file = inode}

\* one step of an operation on a file, with get of every key before and
\* after it and the keys whose index entry referred to the file before it;
\* the flag of a rotation tells whether the counter of the new segment is
\* above the counter of every immutable segment of the directory, the
\* number of a whole compaction is the greatest number of Set records for
\* one key that it leaves in the directory
Event(ev, pre, post, n, flag, inode) ==
    [ev |-> ev, pre |-> Gets(pre), post |-> Gets(post), n |-> n, flag |-> flag,
     held |-> Holders(pre, inode)]

Log(s, e) == [s EXCEPT !.trace = Append(@, e)]

\* the directory and the counters of the store, as a rotation finds and
\* leaves them: the records of every immutable segment and of db.active
Directory(s) ==
    [segments |-> [n \in DOMAIN s.immutables |-> s.files[s.immutables[n]]],
     active |-> s.files[s.active],
     active_entries |-> s.active_entries,
     immutable_counter |-> s.immutable_counter,
     immutables_since_last_compaction |-> s.immutables_since_last_compaction]

\* what the compaction of <n>.immutable found and did: the records of the
\* file, the version of every key in the index, the number of records it
\* counted as dropped, the commands it retained, and the directory and
\* the counters before and after it
Scanned(s, u, n, scan) ==
    [scanned |-> s.files[s.immutables[n]],
     index |-> [k \in DOMAIN s.values |-> s.values[k].version],
     dropped |-> scan.inactive_amount,
     kept |-> {scan.active_values[k] : k \in DOMAIN scan.active_values},
     before |-> Directory(s),
     after |-> Directory(u)]

\* the places, in the files of the directory, of the Set records for a key
SetPlaces(s, k) ==
    UNION {{<<f, i>> : i \in {j \in 1..Len(s.files[f]) :
                                /\ s.files[f][j].type = "Set"
                                /\ s.files[f][j].key = k}}
             : f \in {s.active} \cup {s.immutables[n] : n \in DOMAIN s.immutables}}

\* the greatest number of Set records that the files of the directory
\* hold for one key; the step that ends a compaction records it
MostSetsPerKey(s) ==
    LET counts == {Cardinality(SetPlaces(s, k)) : k \in Keys}
    IN  CHOOSE c \in counts : \A d \in counts : d <= c

\* ------------------------------------------------------------------ writing

\* the inode of a file that OpenOptions::create(true) creates: one not in use
FreshInode(fs) == 1 + (CHOOSE i \in DOMAIN fs : \A j \in DOMAIN fs : j <= i)

\* rotate as it would be if it emptied db.active in place instead of
\* renaming it
rotate_truncates(s) ==
    LET c == s.immutable_counter + 1
        t == [s EXCEPT
                !.immutable_counter = c,
                !.immutables_since_last_compaction = @ + 1,
                !.immutables = MapInsert(@, c, FreshInode(s.files)),
                !.files = MapInsert([@ EXCEPT ![s.active] = <<>>],
                                    FreshInode(s.files), s.files[s.active]),
                !.active_entries = 0]
    IN  Log(t, Event("rotate", s, t, c,
                     \A m \in DOMAIN s.immutables : m < c, s.active)
               @@ [before |-> Directory(s), after |-> Directory(t)])

\* rotate as it would be if it did not count the new segment towards the
\* next compaction
rotate_uncounted(s) ==
    LET c == s.immutable_counter + 1
        new == FreshInode(s.files)
        t == [s EXCEPT
                !.immutable_counter = c,
                !.immutables = MapInsert(@, c, s.active),
                !.active = new,
                !.files = MapInsert(@, new, <<>>),
                !.active_for_write = new,
                !.active_for_read = new,
                !.active_entries = 0]
    IN  Log(t, Event("rotate", s, t, c,
                     \A m \in DOMAIN s.immutables : m < c, s.active)
               @@ [before |-> Directory(s), after |-> Directory(t)])

\* KvStore::rotate: db.active becomes <immutable_counter>.immutable, a new
\* empty db.active is created and both handles are opened on it
rotate(s) ==
    LET c == s.immutable_counter + 1
        new == FreshInode(s.files)
        t == [s EXCEPT
                !.immutable_counter = c,
                !.immutables_since_last_compaction = @ + 1,
                !.immutables = MapInsert(@, c, s.active),
                !.active = new,
                !.files = MapInsert(@, new, <<>>),
                !.active_for_write = new,
                !.active_for_read = new,
                !.active_entries = 0]
    IN  Log(t, Event("rotate", s, t, c,
                     \A m \in DOMAIN s.immutables : m < c, s.active)
               @@ [before |-> Directory(s), after |-> Directory(t)])

\* should_compact as it would be with > in place of >=
should_compact_above(s) == s.immutables_since_last_compaction > COMPACTION_TRESHOLD

\* KvStore::should_compact
should_compact(s) == s.immutables_since_last_compaction >= COMPACTION_TRESHOLD

\* the write of append as it would be without self.active_entries += 1
write_uncounted(s, cmd, no_compaction) ==
    LET offset == FileLen(s.files[s.active_for_write])
        t == [s EXCEPT !.files[s.active_for_write] = Append(@, cmd)]
    IN  [st |-> Log(t, Event("write", s, t, s.active_entries, no_compaction,
                             s.active_for_write)
                       @@ [cmd |-> cmd,
                           offset |-> offset,
                           entries |-> t.active_entries,
                           file_before |-> s.files[s.active_for_write],
                           file_after |-> t.files[t.active_for_write]]),
         offset |-> offset]

\* the write of append as it would be without the seek to the end, on a
\* handle that stands at the start of the file: the command replaces the
\* first record
write_without_seek(s, cmd, no_compaction) ==
    LET old == s.files[s.active_for_write]
        t == [s EXCEPT
                !.files[s.active_for_write] =
                    <<cmd>> \o (IF old = <<>> THEN <<>> ELSE Tail(old)),
                !.active_entries = @ + 1]
    IN  [st |-> Log(t, Event("write", s, t, s.active_entries, no_compaction,
                             s.active_for_write)
                       @@ [cmd |-> cmd,
                           offset |-> 0,
                           entries |-> t.active_entries,
                           file_before |-> old,
                           file_after |-> t.files[t.active_for_write]]),
         offset |-> 0]

\* KvStore::append, lines 523-533: seek to the end, write the command whole
write(s, cmd, no_compaction) ==
    LET offset == FileLen(s.files[s.active_for_write])
        t == [s EXCEPT
                !.files[s.active_for_write] = Append(@, cmd),
                !.active_entries = @ + 1]
    IN  [st |-> Log(t, Event("write", s, t, s.active_entries, no_compaction,
                             s.active_for_write)
                       @@ [cmd |-> cmd,
                           offset |-> offset,
                           entries |-> t.active_entries,
                           file_before |-> s.files[s.active_for_write],
                           file_after |-> t.files[t.active_for_write]]),
         offset |-> offset]

RECURSIVE ScanFile_ignores_version(_, _, _)
\* the scan of compact_file as it would be if it retained every Set whose
\* key is in the index, whatever its version
ScanFile_ignores_version(index, recs, acc) ==
    IF recs = <<>> THEN acc
    ELSE LET cmd == Head(recs)
             keep == cmd.type = "Set" /\ cmd.key \in DOMAIN index
         IN  ScanFile_ignores_version(index, Tail(recs),
                 IF keep
                 THEN [acc EXCEPT !.active_values = MapInsert(@, cmd.key, cmd)]
                 ELSE [acc EXCEPT !.inactive_amount = @ + 1])

RECURSIVE ScanFile_keeps_unindexed(_, _, _)
\* the scan of compact_file as it would be if it also retained the Sets
\* whose key is not in the index
ScanFile_keeps_unindexed(index, recs, acc) ==
    IF recs = <<>> THEN acc
    ELSE LET cmd == Head(recs)
             keep == /\ cmd.type = "Set"
                     /\ (cmd.key \in DOMAIN index => index[cmd.key].version = cmd.version)
         IN  ScanFile_keeps_unindexed(index, Tail(recs),
                 IF keep
                 THEN [acc EXCEPT !.active_values = MapInsert(@, cmd.key, cmd)]
                 ELSE [acc EXCEPT !.inactive_amount = @ + 1])

RECURSIVE ScanFile(_, _, _)
\* KvStore::compact_file, lines 477-493: the commands of the file to retain
\* (the last one per key) and the number of commands to drop
ScanFile(index, recs, acc) ==
    IF recs = <<>> THEN acc
    ELSE LET cmd == Head(recs)
             keep == /\ cmd.type = "Set"
                     /\ cmd.key \in DOMAIN index
                     /\ cmd.version = index[cmd.key].version
         IN  ScanFile(index, Tail(recs),
                 IF keep
                 THEN [acc EXCEPT !.active_values = MapInsert(@, cmd.key, cmd)]
                 ELSE [acc EXCEPT !.inactive_amount = @ + 1])

RECURSIVE append(_, _, _)
RECURSIVE AppendAll(_, _)
RECURSIVE compact_file(_, _)
RECURSIVE CompactFiles(_, _)
RECURSIVE compact(_)

\* append as it would be if it rotated only a segment that already holds
\* more than FILE_ROTATION_TRESHOLD records
append_rotates_late(s, cmd, no_compaction) ==
    LET s1 == IF s.active_entries > FILE_ROTATION_TRESHOLD THEN rotate(s) ELSE s
        S2 == IF ~no_compaction /\ should_compact(s1) THEN compact(s1) ELSE {s1}
    IN  {write(s2, cmd, no_compaction) : s2 \in S2}

\* append as it would be if it tested for compaction before it rotated
append_compacts_first(s, cmd, no_compaction) ==
    LET S1 == IF ~no_compaction /\ should_compact(s) THEN compact(s) ELSE {s}
    IN  {write(IF s1.active_entries >= FILE_ROTATION_TRESHOLD THEN rotate(s1) ELSE s1,
               cmd, no_compaction) : s1 \in S1}

\* KvStore::append: the outcomes [st, offset]; more than one when a
\* compaction runs, whose HashMap iteration order is not determined
append(s, cmd, no_compaction) ==
    LET s1 == IF s.active_entries >= FILE_ROTATION_TRESHOLD THEN rotate(s) ELSE s
        S2 == IF ~no_compaction /\ should_compact(s1) THEN compact(s1) ELSE {s1}
    IN  {write(s2, cmd, no_compaction) : s2 \in S2}

\* KvStore::compact_file, lines 501-503: append the retained commands
AppendAll(s, cmds) ==
    IF cmds = <<>> THEN {s}
    ELSE UNION {AppendAll(o.st, Tail(cmds)) : o \in append(s, Head(cmds), TRUE)}

\* KvStore::compact_file on <n>.immutable
compact_file(s, n) ==
    LET scan == ScanFile(s.values, s.files[s.immutables[n]],
                         [active_values |-> EmptyMap, inactive_amount |-> 0])
    IN  IF scan.inactive_amount > 0
        THEN LET Appended ==
                     UNION {AppendAll(s, [i \in 1..Len(ord) |-> scan.active_values[ord[i]]])
                              : ord \in Orders(DOMAIN scan.active_values)}
             IN  {LET u == [t EXCEPT !.immutables = MapRemove(@, n)]
                  IN  Log(u, Event("compact_file", s, u, n, TRUE, s.immutables[n])
                             @@ Scanned(s, u, n, scan))
                    : t \in Appended}
        ELSE {Log(s, Event("compact_file", s, s, n, FALSE, s.immutables[n])
                     @@ Scanned(s, s, n, scan))}

\* KvStore::compact, lines 462-464
CompactFiles(s, paths) ==
    IF paths = <<>> THEN {s}
    ELSE UNION {CompactFiles(t, Tail(paths)) : t \in compact_file(s, Head(paths))}

\* compact as it would be if it left immutables_since_last_compaction alone
compact_keeps_count(s) ==
    {Log(t, Event("compact", s, t, MostSetsPerKey(t), FALSE, s.active)
            @@ [before |-> Directory(s),
                after |-> Directory(t),
                orphans |-> {k \in Keys \ DOMAIN t.values : SetPlaces(t, k) # {}}])
       : t \in CompactFiles(s, SortPaths(DOMAIN s.immutables))}

\* KvStore::compact
compact(s) ==
    {LET u == [t EXCEPT !.immutables_since_last_compaction = 0]
     IN  Log(u, Event("compact", s, u, MostSetsPerKey(u), FALSE, s.active)
                @@ [before |-> Directory(s),
                    after |-> Directory(u),
                    orphans |-> {k \in Keys \ DOMAIN u.values : SetPlaces(u, k) # {}}])
       : t \in CompactFiles(s, SortPaths(DOMAIN s.immutables))}

\* set as it would be if it inserted the pointer only for a new key
set_keeps_pointer(s, key, value) ==
    LET version == IF key \in DOMAIN s.values THEN s.values[key].version + 1 ELSE 0
        cmd == CommandSet(key, value, version)
    IN  {[st |-> IF key \in DOMAIN s.values THEN o.st
                 ELSE [o.st EXCEPT !.values =
                    MapInsert(@, key, ValuePointer(o.st.active_for_read, o.offset, version))],
          res |-> "Ok"] : o \in append(s, cmd, FALSE)}

\* set as it would be if it took the offset of the record from the length
\* of the active segment before the append, which may rotate
set_offset_before_append(s, key, value) ==
    LET version == IF key \in DOMAIN s.values THEN s.values[key].version + 1 ELSE 0
        cmd == CommandSet(key, value, version)
        offset == FileLen(s.files[s.active_for_write])
    IN  {[st |-> [o.st EXCEPT !.values =
                    MapInsert(@, key, ValuePointer(o.st.active_for_read, offset, version))],
          res |-> "Ok"] : o \in append(s, cmd, FALSE)}

\* set as it would be if it took the handle for the pointer before the
\* append, which may rotate
set_handle_before_append(s, key, value) ==
    LET version == IF key \in DOMAIN s.values THEN s.values[key].version + 1 ELSE 0
        cmd == CommandSet(key, value, version)
    IN  {[st |-> [o.st EXCEPT !.values =
                    MapInsert(@, key, ValuePointer(s.active_for_read, o.offset, version))],
          res |-> "Ok"] : o \in append(s, cmd, FALSE)}

\* KvStore::set: the outcomes [st, res]
set(s, key, value) ==
    LET version == IF key \in DOMAIN s.values THEN s.values[key].version + 1 ELSE 0
        cmd == CommandSet(key, value, version)
    IN  {[st |-> [o.st EXCEPT !.values =
                    MapInsert(@, key, ValuePointer(o.st.active_for_read, o.offset, version))],
          res |-> "Ok"] : o \in append(s, cmd, FALSE)}

\* remove as it would be if it looked the key up without erasing it
remove_keeps_entry(s, key) ==
    IF key \notin DOMAIN s.values THEN {[st |-> s, res |-> "KeyNotFound"]}
    ELSE {[st |-> o.st, res |-> "Ok"] : o \in append(s, CommandRemove(key), FALSE)}

\* remove as it would be if it logged the Remove before looking the key up
remove_appends_first(s, key) ==
    {[st |-> [o.st EXCEPT !.values = MapRemove(@, key)],
      res |-> IF key \in DOMAIN s.values THEN "Ok" ELSE "KeyNotFound"]
        : o \in append(s, CommandRemove(key), FALSE)}

\* KvStore::remove: the outcomes [st, res]
remove(s, key) ==
    IF key \notin DOMAIN s.values THEN {[st |-> s, res |-> "KeyNotFound"]}
    ELSE LET s1 == [s EXCEPT !.values = MapRemove(@, key)]
         IN  {[st |-> o.st, res |-> "Ok"] : o \in append(s1, CommandRemove(key), FALSE)}

\* the places where an append can return an error before it writes the
\* record: the rename of the rotation, the read_dir that starts the
\* compaction, and the encoding of the command
FailurePoints == {"rotate", "compact", "encode"}

\* the error that KvStore::append returns from a failure point
FailureOf(at) == IF at = "encode" THEN "SerializationError" ELSE "IOError"

\* KvStore::rotate, lines 404-410, when fs::rename fails: the counters are
\* incremented, the directory is as it was
rotate_fails(s) ==
    [s EXCEPT !.immutable_counter = @ + 1,
              !.immutables_since_last_compaction = @ + 1]

\* KvStore::append when a step before the write fails: the states the
\* store is left in (none when the append does not reach that step)
append_fails(s, cmd, no_compaction, at) ==
    IF at = "rotate"
    THEN IF s.active_entries >= FILE_ROTATION_TRESHOLD THEN {rotate_fails(s)} ELSE {}
    ELSE LET s1 == IF s.active_entries >= FILE_ROTATION_TRESHOLD THEN rotate(s) ELSE s
         IN  IF at = "compact"
             THEN IF ~no_compaction /\ should_compact(s1) THEN {s1} ELSE {}
             ELSE IF ~no_compaction /\ should_compact(s1) THEN compact(s1) ELSE {s1}

\* KvStore::set when its append fails: the ? returns before the insert
set_fails(s, key, value, at) ==
    LET version == IF key \in DOMAIN s.values THEN s.values[key].version + 1 ELSE 0
        cmd == CommandSet(key, value, version)
    IN  {[st |-> t, res |-> FailureOf(at)] : t \in append_fails(s, cmd, FALSE, at)}

\* KvStore::remove when its append fails: the entry is already erased
remove_fails(s, key, at) ==
    IF key \notin DOMAIN s.values THEN {}
    ELSE LET s1 == [s EXCEPT !.values = MapRemove(@, key)]
         IN  {[st |-> t, res |-> FailureOf(at)]
                : t \in append_fails(s1, CommandRemove(key), FALSE, at)}

\* ------------------------------------------------------------------ open

RECURSIVE ReadCommands(_, _, _)
\* KvStore::read_log, lines 293-302: a Set inserts the key with the offset
\* the command starts at, a Remove removes the key from the map of this file
ReadCommands(recs, i, vals) ==
    IF i > Len(recs) THEN vals
    ELSE ReadCommands(recs, i + 1,
             IF recs[i].type = "Set"
             THEN MapInsert(vals, recs[i].key,
                            [offset |-> StartOf(recs, i), version |-> recs[i].version])
             ELSE MapRemove(vals, recs[i].key))

\* KvStore::read_log: LogValues { values, size }
read_log(recs) == [values |-> ReadCommands(recs, 1, EmptyMap), size |-> Len(recs)]

\* open, lines 211-221, and read_immutable_logs, lines 258-268: insert a
\* ValuePointer for every key of the LogValues of one file
InsertLog(index, inode, offsets) ==
    [k \in DOMAIN index \cup DOMAIN offsets |->
        IF k \in DOMAIN offsets
        THEN ValuePointer(inode, offsets[k].offset, offsets[k].version)
        ELSE index[k]]

RECURSIVE ReadFiles(_, _, _)
\* KvStore::read_immutable_logs, lines 249-270, over the files in the order
\* fs::read_dir yields them
ReadFiles(s, ord, acc) ==
    IF ord = <<>> THEN acc
    ELSE LET counter == Head(ord)
             inode == s.immutables[counter]
         IN  ReadFiles(s, Tail(ord),
                 [values |-> InsertLog(acc.values, inode, read_log(s.files[inode]).values),
                  highest_counter |-> IF counter > acc.highest_counter
                                      THEN counter ELSE acc.highest_counter])

\* KvStore::read_immutable_logs: fs::read_dir yields the entries in an
\* order that is not determined
read_immutable_logs(s) ==
    {[res |-> ReadFiles(s, ord, [values |-> EmptyMap, highest_counter |-> 0]),
      order |-> ord] : ord \in Orders(DOMAIN s.immutables)}

\* open as it would be if it started the counter at the number of
\* immutable segments instead of the highest counter among them
open_counts_segments(s) ==
    {LET log == read_log(s.files[s.active])
     IN  [st |-> [files |-> s.files, immutables |-> s.immutables,
                  active |-> s.active,
                  active_for_write |-> s.active,
                  active_for_read |-> s.active,
                  active_entries |-> log.size,
                  immutable_counter |-> Cardinality(DOMAIN s.immutables),
                  immutables_since_last_compaction |-> 0,
                  values |-> InsertLog(r.res.values, s.active, log.values),
                  trace |-> <<>>],
          order |-> r.order] : r \in read_immutable_logs(s)}

\* KvStore::open on the directory of s: the outcomes [st, order]
open(s) ==
    {LET log == read_log(s.files[s.active])
     IN  [st |-> [files |-> s.files, immutables |-> s.immutables,
                  active |-> s.active,
                  active_for_write |-> s.active,
                  active_for_read |-> s.active,
                  active_entries |-> log.size,
                  immutable_counter |-> r.res.highest_counter,
                  immutables_since_last_compaction |-> 0,
                  values |-> InsertLog(r.res.values, s.active, log.values),
                  trace |-> <<>>],
          order |-> r.order] : r \in read_immutable_logs(s)}

\* ------------------------------------------------------------------ file names

\* a file name is a sequence of characters; the words "db", "active" and
\* "immutable" stand for their letters
DigitChars == <<"0", "1", "2", "3", "4", "5", "6", "7", "8", "9">>

\* KvStore::ACTIVE_FILE_NAME
ACTIVE_FILE_NAME == <<"db", ".", "active">>

\* format!("{}.immutable", counter)
SegmentName(counter) ==
    [i \in 1..Len(Digits(counter)) |-> DigitChars[Digits(counter)[i] + 1]]
        \o <<".", "immutable">>

\* where Path::extension and Path::file_stem split a file name: at its last
\* '.', unless there is none or the only one starts the name (0)
SplitAt(name) ==
    LET dots == {i \in 1..Len(name) : name[i] = "."}
        lastDot == CHOOSE i \in dots : \A j \in dots : j <= i
    IN  IF dots = {} \/ lastDot = 1 THEN 0 ELSE lastDot

\* Path::extension, <<"None">> when the name has none
extension(name) ==
    IF SplitAt(name) = 0 THEN <<"None">>
    ELSE <<"Some", SubSeq(name, SplitAt(name) + 1, Len(name))>>

\* Path::file_stem
file_stem(name) ==
    IF SplitAt(name) = 0 THEN name ELSE SubSeq(name, 1, SplitAt(name) - 1)

\* KvStore::is_immutable_file
is_immutable_file(name) == extension(name) = <<"Some", <<"immutable">>>>

RECURSIVE DigitsValue(_, _)
\* the number a sequence of decimal digits denotes, after the digits of acc
DigitsValue(chars, acc) ==
    IF chars = <<>> THEN acc
    ELSE DigitsValue(Tail(chars),
            10 * acc + (CHOOSE d \in 0..9 : DigitChars[d + 1] = Head(chars)))

\* str::parse::<u64>: an optional '+', then one or more decimal digits
\* (the names of this model are too short to overflow 64 bits)
parse_u64(chars) ==
    LET digits == IF chars # <<>> /\ Head(chars) = "+" THEN Tail(chars) ELSE chars
    IN  IF digits # <<>> /\ \A i \in 1..Len(digits) :
                                \E d \in 1..10 : DigitChars[d] = digits[i]
        THEN [ok |-> TRUE, value |-> DigitsValue(digits, 0)]
        ELSE [ok |-> FALSE, value |-> 0]

\* KvStore::extract_counter: ok is FALSE for Err(KvError::Consistency)
extract_counter(name) == parse_u64(file_stem(name))

\* the names fs::read_dir yields for the directory of s when it also holds
\* the files named names
DirEntries(s, names) ==
    {ACTIVE_FILE_NAME} \cup {SegmentName(n) : n \in DOMAIN s.immutables} \cup names

\* open as it would be if read_immutable_logs skipped the immutable files
\* whose stem does not parse
open_dir_skips_unparsable(s, names) ==
    {[res |-> "Ok", st |-> o.st, order |-> o.order] : o \in open(s)}

\* KvStore::open on the directory of s with the files named names in it:
\* read_immutable_logs returns the error of extract_counter for the first
\* such entry it meets, before open creates or changes anything; entries
\* that are not immutable files are skipped
open_dir(s, names) ==
    IF \E path \in DirEntries(s, names) :
            is_immutable_file(path) /\ ~extract_counter(path).ok
    THEN {[res |-> "Consistency", st |-> s, order |-> <<>>]}
    ELSE {[res |-> "Ok", st |-> o.st, order |-> o.order] : o \in open(s)}

\* file names that are tried in the directory
CandidateNames ==
    {<<"x", ".", "immutable">>,
     <<"-", "7", ".", "immutable">>,
     <<"7", ".", "x", ".", "immutable">>,
     <<"+", "7", ".", "immutable">>,
     <<".", "immutable">>,
     <<"immutable">>,
     <<"7", ".", "immutable", ".", "x">>}

\* those of them that are not segments: a name with the extension
\* immutable and a stem that parses names a segment of the store
ForeignNames ==
    {name \in CandidateNames : ~(is_immutable_file(name) /\ extract_counter(name).ok)}

\* ------------------------------------------------------------------ codec

\* a String is a sequence of characters, a character is its code point;
\* the characters that the strings of the commands are made of: 'a', '\r',
\* '$' and 'e' with an acute accent, which takes two bytes in UTF-8
Chars == {97, 13, 36, 233}

\* the replacement character U+FFFD
REPLACEMENT_CHARACTER == 65533

\* const CR, LF, CRLF
CR == 13
LF == 10
CRLF == <<CR, LF>>

\* the UTF-8 bytes of a character below U+0800
Utf8(c) == IF c < 128 THEN <<c>> ELSE <<192 + (c \div 64), 128 + (c % 64)>>

RECURSIVE as_bytes(_)
\* str::as_bytes, and str::len as the length of it
as_bytes(str) == IF str = <<>> THEN <<>> ELSE Utf8(Head(str)) \o as_bytes(Tail(str))

\* String::from_utf8_lossy of a buffer of one byte: a byte that is not a
\* whole character becomes U+FFFD
from_utf8_lossy(b) == IF b < 128 THEN b ELSE REPLACEMENT_CHARACTER

\* usize::to_string
to_string(n) == [i \in 1..Len(Digits(n)) |-> 48 + Digits(n)[i]]

\* the words of the commands
GET == <<71, 69, 84>>
SET == <<83, 69, 84>>
PING == <<80, 73, 78, 71>>

\* enum Command { Get(String), Set(String, String), Ping(Option<String>) }
CommandGet(key) == [name |-> "Get", args |-> <<key>>]
CommandSetKV(key, value) == [name |-> "Set", args |-> <<key, value>>]
CommandPing(mb_message) == [name |-> "Ping", args |-> mb_message]
NoCommand == [name |-> "none", args |-> <<>>]

\* Result<Command, String>; a panic of the function is a result of its own
Ok(cmd) == [ok |-> TRUE, cmd |-> cmd, err |-> "none"]
Err(e) == [ok |-> FALSE, cmd |-> NoCommand, err |-> e]

RECURSIVE SerializeElems(_)
\* parser::serialize_vec, lines 48-54
SerializeElems(elems) ==
    IF elems = <<>> THEN <<>>
    ELSE <<36>> \o to_string(Len(as_bytes(Head(elems)))) \o CRLF
            \o Head(elems) \o CRLF \o SerializeElems(Tail(elems))

\* parser::serialize_vec
serialize_vec(elems) ==
    <<42>> \o to_string(Len(elems)) \o CRLF \o SerializeElems(elems)

\* parser::serialize
serialize(cmd) ==
    IF cmd.name = "Get" THEN serialize_vec(<<GET>> \o cmd.args)
    ELSE IF cmd.name = "Set" THEN serialize_vec(<<SET>> \o cmd.args)
    ELSE serialize_vec(<<PING>> \o cmd.args)

\* Read::read of one byte from a slice: at the end of the slice it returns
\* 0 and leaves the buffer as it was
read(bytes, r) ==
    IF r.pos <= Len(bytes)
    THEN [n |-> 1, pos |-> r.pos + 1, buf |-> bytes[r.pos]]
    ELSE [n |-> 0, pos |-> r.pos, buf |-> r.buf]

RECURSIVE read_to_crlf(_, _, _)
\* parser::read_to_crlf: the string read, and the reader after it
read_to_crlf(bytes, r, string) ==
    LET x == read(bytes, r)
    IN  IF x.n # 1 THEN [string |-> string, r |-> x]
        ELSE IF x.buf = CR THEN [string |-> string, r |-> read(bytes, x)]
        ELSE read_to_crlf(bytes, x, Append(string, from_utf8_lossy(x.buf)))

RECURSIVE DecimalValue(_, _)
DecimalValue(chars, acc) ==
    IF chars = <<>> THEN acc ELSE DecimalValue(Tail(chars), 10 * acc + (Head(chars) - 48))

\* str::parse::<i32>: an optional sign, then one or more decimal digits
\* (the numbers of this model are too short to overflow 32 bits)
parse_i32(str) ==
    LET signed == str # <<>> /\ Head(str) \in {43, 45}
        digits == IF signed THEN Tail(str) ELSE str
    IN  IF digits # <<>> /\ \A i \in 1..Len(digits) : digits[i] \in 48..57
        THEN [ok |-> TRUE,
              val |-> IF signed /\ Head(str) = 45 THEN 0 - DecimalValue(digits, 0)
                      ELSE DecimalValue(digits, 0)]
        ELSE [ok |-> FALSE, val |-> 0]

\* parser::parse_integer
parse_integer(bytes, r) ==
    LET t == read_to_crlf(bytes, r, <<>>)
        i == parse_i32(t.string)
    IN  [ok |-> i.ok, val |-> i.val, r |-> t.r]

RECURSIVE ReadString(_, _, _, _)
\* parser::deserialize_arr, lines 78-82: str_length times, read one byte
\* and push what from_utf8_lossy makes of the buffer
ReadString(bytes, r, n, string) ==
    IF n <= 0 THEN [string |-> string, r |-> r]
    ELSE LET x == read(bytes, r)
         IN  ReadString(bytes, x, n - 1, Append(string, from_utf8_lossy(x.buf)))

RECURSIVE ReadElems(_, _, _, _)
\* parser::deserialize_arr, lines 74-86
ReadElems(bytes, r, n, elems) ==
    IF n <= 0 THEN [ok |-> TRUE, elems |-> elems]
    ELSE LET len == parse_integer(bytes, read(bytes, r))
         IN  IF ~len.ok THEN [ok |-> FALSE, elems |-> elems]
             ELSE LET str == ReadString(bytes, len.r, len.val, <<>>)
                  IN  ReadElems(bytes, read(bytes, read(bytes, str.r)), n - 1,
                                Append(elems, str.string))

\* parser::deserialize_arr
deserialize_arr(bytes, r) ==
    LET arr_length == parse_integer(bytes, r)
    IN  IF ~arr_length.ok THEN Err("cannot be parsed as int")
        ELSE LET res == ReadElems(bytes, arr_length.r, arr_length.val, <<>>)
                 elems == res.elems
             IN  IF ~res.ok THEN Err("cannot be parsed as int")
                 ELSE IF elems = <<>> THEN Err("panic")
                 ELSE IF elems[1] = GET
                 THEN IF Len(elems) < 2 THEN Err("panic") ELSE Ok(CommandGet(elems[2]))
                 ELSE IF elems[1] = SET
                 THEN IF Len(elems) < 3 THEN Err("panic")
                      ELSE Ok(CommandSetKV(elems[2], elems[3]))
                 ELSE IF elems[1] = PING
                 THEN Ok(CommandPing(IF Len(elems) < 2 THEN <<>> ELSE <<elems[2]>>))
                 ELSE Err("Expected COMMAND")

\* parser::deserialize
deserialize(bytes) ==
    LET x == read(bytes, [pos |-> 1, buf |-> 0])
    IN  IF x.n # 1 THEN Err("Empty buffer")
        ELSE IF x.buf = 42 THEN deserialize_arr(bytes, x)
        ELSE Err("Expected '*'")

\* the strings of at most MaxStrLen characters
Strings == UNION {[1..n -> Chars] : n \in 0..MaxStrLen}

\* the commands
Commands ==
    {CommandGet(k) : k \in Strings}
        \cup {CommandSetKV(k, v) : k \in Strings, v \in Strings}
        \cup {CommandPing(<<>>)}
        \cup {CommandPing(<<m>>) : m \in Strings}

\* no command is being encoded
NoCodec == [pc |-> "none", cmd |-> NoCommand, wire |-> <<>>, parsed |-> Err("none")]

\* ------------------------------------------------------------------ server

Handlers == 1..MaxHandlers

\* the replies of the service: GetReply { value }, SetReply {},
\* RemoveReply { removed }, and Err(Status) with its code and message
GetReply(v) ==
    [kind |-> "GetReply", value |-> v, removed |-> FALSE, code |-> "Ok", message |-> ""]

SetReply ==
    [kind |-> "SetReply", value |-> None, removed |-> FALSE, code |-> "Ok", message |-> ""]

RemoveReply(b) ==
    [kind |-> "RemoveReply", value |-> None, removed |-> b, code |-> "Ok", message |-> ""]

NoReply ==
    [kind |-> "none", value |-> None, removed |-> FALSE, code |-> "Ok", message |-> ""]

\* KvsServerImpl::kverror_to_status
kverror_to_status(kve) ==
    [kind |-> "Status", value |-> None, removed |-> FALSE, code |-> "Internal",
     message |-> kve]

\* the fields of a KvStore value
StoreOf(s) ==
    [active_for_write |-> s.active_for_write,
     active_for_read |-> s.active_for_read,
     active_entries |-> s.active_entries,
     immutable_counter |-> s.immutable_counter,
     immutables_since_last_compaction |-> s.immutables_since_last_compaction,
     values |-> s.values]

NoStore ==
    [active_for_write |-> 0, active_for_read |-> 0, active_entries |-> 0,
     immutable_counter |-> 0, immutables_since_last_compaction |-> 0,
     values |-> EmptyMap]

\* the store value kv on the directory as it is now
OnDirectory(kv) ==
    [files |-> files, immutables |-> immutables, active |-> active,
     active_for_write |-> kv.active_for_write,
     active_for_read |-> kv.active_for_read,
     active_entries |-> kv.active_entries,
     immutable_counter |-> kv.immutable_counter,
     immutables_since_last_compaction |-> kv.immutables_since_last_compaction,
     values |-> kv.values, trace |-> <<>>]

\* KvsServerImpl::kv: KvStore::open on ".", its error turned into a Status
kv(names) ==
    {[ok |-> o.res = "Ok", st |-> o.st,
      reply |-> IF o.res = "Ok" THEN NoReply ELSE kverror_to_status(o.res)]
        : o \in open_dir(OnDirectory(NoStore), names)}

\* Kvs::get of KvsServerImpl, after kv(): the outcomes [st, eng, reply]
Kvs_get(s, key) ==
    LET r == get(s, key)
    IN  {[st |-> s, eng |-> r[1],
          reply |-> IF r = ConsistencyError THEN kverror_to_status("Consistency")
                    ELSE GetReply(r)]}

\* Kvs::set of KvsServerImpl, after kv()
Kvs_set(s, key, value) ==
    {[st |-> o.st, eng |-> o.res,
      reply |-> IF o.res = "Ok" THEN SetReply ELSE kverror_to_status(o.res)]
        : o \in set(s, key, value)
                \cup UNION {set_fails(s, key, value, at) : at \in FailurePoints}}

\* Kvs::remove of KvsServerImpl as it would be if it turned every error of
\* the store into a Status
Kvs_remove_strict(s, key) ==
    {[st |-> o.st, eng |-> o.res,
      reply |-> IF o.res = "Ok" THEN RemoveReply(TRUE) ELSE kverror_to_status(o.res)]
        : o \in remove(s, key)
                \cup UNION {remove_fails(s, key, at) : at \in FailurePoints}}

\* Kvs::remove of KvsServerImpl, after kv()
Kvs_remove(s, key) ==
    {[st |-> o.st, eng |-> o.res,
      reply |-> IF o.res = "Ok" THEN RemoveReply(TRUE)
                ELSE IF o.res = "KeyNotFound" THEN RemoveReply(FALSE)
                ELSE kverror_to_status(o.res)]
        : o \in remove(s, key)
                \cup UNION {remove_fails(s, key, at) : at \in FailurePoints}}

\* what kvs-client prints and the code it exits with, for the reply to its
\* request; an Err(Status) leaves main through ?, which prints the error
\* on stderr and exits with 1
client_main(op, reply) ==
    IF reply.kind = "Status"
    THEN [stdout |-> <<"">>, stderr |-> <<"Error", reply.code>>, exit |-> 1]
    ELSE IF op = "get"
    THEN [stdout |-> IF reply.value = None THEN <<"Key not found">>
                     ELSE <<"value", reply.value[2]>>,
          stderr |-> <<"">>, exit |-> 0]
    ELSE IF op = "remove" /\ ~reply.removed
    THEN [stdout |-> <<"">>, stderr |-> <<"Key not found">>, exit |-> 1]
    ELSE [stdout |-> <<"">>, stderr |-> <<"">>, exit |-> 0]

NoOutput == [stdout |-> <<"">>, stderr |-> <<"">>, exit |-> 0]

NoRequest == [op |-> "none", key |-> "", value |-> 0]

\* a handler that has served no request
Idle ==
    [pc |-> "idle", n |-> 0, req |-> NoRequest, kv |-> NoStore, had |-> FALSE,
     eng |-> "none", reply |-> NoReply, out |-> NoOutput]

RECURSIVE Served(_)
\* the requests that the handlers H have taken
Served(H) ==
    IF H = {} THEN 0
    ELSE LET h == CHOOSE g \in H : TRUE IN server[h].n + Served(H \ {h})

\* ------------------------------------------------------------------ actions

\* the inodes that a directory entry names or an open handle holds; the
\* file system frees every other inode
LiveInodes(s) ==
    {s.active, s.active_for_write, s.active_for_read}
        \cup {s.immutables[n] : n \in DOMAIN s.immutables}
        \cup {s.values[k].file : k \in DOMAIN s.values}

\* inode numbers carry no meaning, so a state is kept with its inodes
\* renumbered: db.active is 0, <N>.immutable is N, and an unlinked inode
\* that index entries still hold is -j for the first key KeyOrder[j] holding it
InodeLabel(s, i) ==
    IF i = s.active THEN 0
    ELSE IF \E n \in DOMAIN s.immutables : s.immutables[n] = i
    THEN CHOOSE n \in DOMAIN s.immutables : s.immutables[n] = i
    ELSE LET holders == {j \in 1..Len(KeyOrder) :
                            /\ KeyOrder[j] \in DOMAIN s.values
                            /\ s.values[KeyOrder[j]].file = i}
         IN  0 - (CHOOSE j \in holders : \A h \in holders : j <= h)

Install(s) ==
    LET live == DOMAIN s.files \cap LiveInodes(s)
        inodeOf(l) == CHOOSE i \in live : InodeLabel(s, i) = l
    IN
    /\ files' = [l \in {InodeLabel(s, i) : i \in live} |-> s.files[inodeOf(l)]]
    /\ immutables' = [n \in DOMAIN s.immutables |-> n]
    /\ active' = 0
    /\ active_for_write' = InodeLabel(s, s.active_for_write)
    /\ active_for_read' = InodeLabel(s, s.active_for_read)
    /\ active_entries' = s.active_entries
    /\ immutable_counter' = s.immutable_counter
    /\ immutables_since_last_compaction' = s.immutables_since_last_compaction
    /\ values' = [k \in DOMAIN s.values |->
                    [s.values[k] EXCEPT !.file = InodeLabel(s, @)]]
    /\ trace' = s.trace

Last(op, key, value, res, order) ==
    [op |-> op, key |-> key, value |-> value, res |-> res,
     before |-> Gets(Cur), order |-> order]

\* the state after KvStore::open on an empty directory, with the store
\* alive or dropped and every request handler of the server idle
Created(st) ==
    /\ files = (0 :> <<>>)
    /\ immutables = EmptyMap
    /\ active = 0
    /\ active_for_write = 0
    /\ active_for_read = 0
    /\ active_entries = 0
    /\ immutable_counter = 0
    /\ immutables_since_last_compaction = 0
    /\ values = EmptyMap
    /\ trace = <<>>
    /\ last = [op |-> "open", key |-> "", value |-> 0, res |-> "Ok",
               before |-> [k \in Keys |-> None], order |-> <<>>]
    /\ hist = [k \in Keys |-> <<"none", 0>>]
    /\ ops = 0
    /\ opens = 0
    /\ written = [k \in Keys |-> 0]
    /\ age = EmptyMap
    /\ sets = [k \in Keys |-> 0]
    /\ others = {}
    /\ status = st
    /\ server = [h \in Handlers |-> Idle]

\* the state after KvStore::open on an empty directory
Init == Created("open") /\ codec = NoCodec

\* the Set records in the files the directory names whose value is not
\* the one last written for their key: overwritten or removed
ObsoleteOnDisk(s, w) ==
    LET linked == {s.active} \cup {s.immutables[n] : n \in DOMAIN s.immutables}
    IN  UNION {{s.files[f][i].value : i \in {j \in 1..Len(s.files[f]) :
                    /\ s.files[f][j].type = "Set"
                    /\ w[s.files[f][j].key] # s.files[f][j].value}}
                 : f \in linked}

\* after a successful set or remove: every obsolete record on disk is one
\* operation older, a record that became obsolete now has age 0
Aged(s, w) ==
    [v \in ObsoleteOnDisk(s, w) |->
        IF v \in DOMAIN age
        THEN (IF age[v] < ReclaimBound THEN age[v] + 1 ELSE age[v])
        ELSE 0]

\* kv.set(key, value), as one of the first cap mutations
SetWithin(cap) ==
    \E key \in Keys, value \in 1..cap :
        /\ status = "open"
        /\ value = ops + 1
        /\ UNCHANGED <<others, status, server, codec>>
        /\ \E o \in set(Cur, key, value) :
            /\ ops' = ops + 1
            /\ opens' = opens
            /\ Install(o.st)
            /\ last' = Last("set", key, value, o.res, <<>>)
            /\ hist' = [hist EXCEPT ![key] = <<"set", value>>]
            /\ written' = [written EXCEPT ![key] = value]
            /\ age' = Aged(o.st, written')
            /\ sets' = [sets EXCEPT ![key] = @ + 1]

\* kv.remove(key), as one of the first cap mutations if it succeeds
RemoveWithin(cap) ==
    \E key \in Keys :
        \E o \in remove(Cur, key) :
            /\ status = "open"
            /\ UNCHANGED <<others, status, server, codec>>
            /\ o.res = "Ok" => ops < cap
            /\ ops' = IF o.res = "Ok" THEN ops + 1 ELSE ops
            /\ opens' = opens
            /\ Install(o.st)
            /\ last' = Last("remove", key, 0, o.res, <<>>)
            /\ hist' = IF o.res = "Ok" THEN [hist EXCEPT ![key] = <<"remove", 0>>]
                       ELSE hist
            /\ written' = IF o.res = "Ok" THEN [written EXCEPT ![key] = 0]
                          ELSE written
            /\ age' = IF o.res = "Ok" THEN Aged(o.st, written') ELSE age
            /\ sets' = sets

SetOp == SetWithin(MaxOps)

RemoveOp == RemoveWithin(MaxOps)

\* kv.get(key)
GetOp ==
    \E key \in Keys :
        /\ Install(Cur)
        /\ last' = Last("get", key, 0, get(Cur, key), <<>>)
        /\ status = "open"
        /\ UNCHANGED <<hist, ops, opens, written, age, sets, others, status, server, codec>>

\* the store is dropped and KvStore::open is called on the same directory
ReopenOp ==
    \E o \in open(Cur) :
        /\ opens < MaxOpens
        /\ opens' = opens + 1
        /\ Install(o.st)
        /\ last' = Last("open", "", 0, "Ok", o.order)
        /\ hist' = [k \in Keys |-> <<"none", 0>>]
        /\ status = "open"
        /\ UNCHANGED <<ops, written, age, sets, others, status, server, codec>>

Next == SetOp \/ RemoveOp \/ GetOp \/ ReopenOp

\* a store that is opened, used and dropped, and opened again
Spec == Init /\ [][Next]_vars

ForeignSetOp == SetWithin(MaxForeignOps)

ForeignRemoveOp == RemoveWithin(MaxForeignOps)

\* the store is dropped
DropOp ==
    /\ status = "open"
    /\ status' = "closed"
    /\ last' = Last("drop", "", 0, "Ok", <<>>)
    /\ UNCHANGED <<files, immutables, active, active_for_write, active_for_read,
                   active_entries, immutable_counter,
                   immutables_since_last_compaction, values, trace,
                   hist, ops, opens, written, age, sets, others, server, codec>>

\* while no store lives, a file that is not a segment appears in the
\* directory
CreateFileOp ==
    \E name \in ForeignNames \ others :
        /\ status = "closed"
        /\ Cardinality(others) < MaxForeignFiles
        /\ others' = others \cup {name}
        /\ last' = Last("create", "", 0, "Ok", <<>>)
        /\ UNCHANGED <<files, immutables, active, active_for_write,
                       active_for_read, active_entries, immutable_counter,
                       immutables_since_last_compaction, values, trace,
                       hist, ops, opens, written, age, sets, status, server, codec>>

\* KvStore::open is called on the directory
OpenDirOp ==
    \E o \in open_dir(Cur, others) :
        /\ status = "closed"
        /\ opens < MaxForeignOpens
        /\ opens' = opens + 1
        /\ last' = Last("open", "", 0, o.res, o.order)
        /\ IF o.res = "Ok"
           THEN /\ Install(o.st)
                /\ status' = "open"
                /\ hist' = [k \in Keys |-> <<"none", 0>>]
           ELSE /\ status' = "none"
                /\ UNCHANGED <<files, immutables, active, active_for_write,
                               active_for_read, active_entries, immutable_counter,
                               immutables_since_last_compaction, values, trace,
                               hist>>
        /\ UNCHANGED <<ops, written, age, sets, others, server, codec>>

ForeignNext == ForeignSetOp \/ ForeignRemoveOp \/ DropOp \/ CreateFileOp \/ OpenDirOp

\* a store whose directory receives other files while no instance lives
ForeignSpec == Init /\ [][ForeignNext]_vars

TamperSetOp == SetWithin(MaxTamperOps)

TamperRemoveOp == RemoveWithin(MaxTamperOps)

\* what another process can leave in place of the record cmd of a file
\* without moving the records after it: a Set for another key, two Remove
\* commands (as long as one Set), or another Remove
Replacements(cmd) ==
    IF cmd.type = "Set"
    THEN {<<CommandSet(k, cmd.value, cmd.version)>> : k \in Keys \ {cmd.key}}
            \cup {<<CommandRemove(cmd.key), CommandRemove(cmd.key)>>}
    ELSE {<<CommandRemove(k)>> : k \in Keys \ {cmd.key}}

\* while the store lives, a file it holds is changed from outside: one
\* record is replaced, or the file is cut off before a record
TamperOp ==
    \E f \in DOMAIN files :
        \E i \in 1..Len(files[f]) :
            \E recs \in {SubSeq(files[f], 1, i - 1) \o r
                                \o SubSeq(files[f], i + 1, Len(files[f]))
                            : r \in Replacements(files[f][i])}
                         \cup {SubSeq(files[f], 1, i - 1)} :
                /\ status = "open"
                /\ status' = "tampered"
                /\ files' = [files EXCEPT ![f] = recs]
                /\ last' = Last("tamper", "", 0, "Ok", <<>>)
                /\ UNCHANGED <<immutables, active, active_for_write,
                               active_for_read, active_entries, immutable_counter,
                               immutables_since_last_compaction, values, trace,
                               hist, ops, opens, written, age, sets, others, server, codec>>

\* kv.get(key) on a store one of whose files was changed
TamperedGetOp ==
    \E key \in Keys :
        /\ status = "tampered"
        /\ Install(Cur)
        /\ last' = Last("get", key, 0, get(Cur, key), <<>>)
        /\ UNCHANGED <<hist, ops, opens, written, age, sets, others, status, server, codec>>

TamperNext == TamperSetOp \/ TamperRemoveOp \/ GetOp \/ TamperOp \/ TamperedGetOp

\* a store whose files another process changes while it lives
TamperSpec == Init /\ [][TamperNext]_vars

FaultSetOp == SetWithin(MaxFaultOps)

FaultRemoveOp == RemoveWithin(MaxFaultOps)

\* kv.set(key, value) returns an error from a step before the write
FailedSetOp ==
    \E key \in Keys, at \in FailurePoints :
        \E o \in set_fails(Cur, key, ops + 1, at) :
            /\ status = "open"
            /\ status' = "failed"
            /\ Install(o.st)
            /\ last' = Last("set", key, ops + 1, o.res, <<>>)
            /\ UNCHANGED <<hist, ops, opens, written, age, sets, others, server, codec>>

\* kv.remove(key) returns an error from a step before the write
FailedRemoveOp ==
    \E key \in Keys, at \in FailurePoints :
        \E o \in remove_fails(Cur, key, at) :
            /\ status = "open"
            /\ status' = "failed"
            /\ Install(o.st)
            /\ last' = Last("remove", key, 0, o.res, <<>>)
            /\ UNCHANGED <<hist, ops, opens, written, age, sets, others, server, codec>>

\* kv.get(key) on the store after the failed call
FailedGetOp ==
    \E key \in Keys :
        /\ status = "failed"
        /\ Install(Cur)
        /\ last' = Last("get", key, 0, get(Cur, key), <<>>)
        /\ UNCHANGED <<hist, ops, opens, written, age, sets, others, status, server, codec>>

FaultNext == FaultSetOp \/ FaultRemoveOp \/ FailedSetOp \/ FailedRemoveOp \/ FailedGetOp

\* a store one of whose mutations fails before it writes its record
FaultSpec == Init /\ [][FaultNext]_vars

\* the requests a client can send; the value of a set is the number of the
\* request
Requests ==
    {[op |-> op, key |-> k, value |-> IF op = "set" THEN Served(Handlers) + 1 ELSE 0]
        : op \in {"get", "set", "remove"}, k \in Keys}

\* the inodes that the directory names or a store of a handler holds
ServerInodes(fs, imm, act, srv) ==
    {act} \cup {imm[n] : n \in DOMAIN imm}
        \cup UNION {{srv[h].kv.active_for_write, srv[h].kv.active_for_read}
                        \cup {srv[h].kv.values[k].file : k \in DOMAIN srv[h].kv.values}
                     : h \in {g \in Handlers : srv[g].pc = "opened"}}

\* a handler takes a request and opens its store: let mut kv = self.kv()?
\* (handlers are alike, so the idle one with the least number takes it)
RequestOp ==
    \E h \in Handlers, req \in Requests :
        \E o \in kv(others) :
            /\ status = "closed"
            /\ server[h].pc = "idle"
            /\ \A g \in Handlers : server[g].pc = "idle" => h <= g
            /\ Served(Handlers) < MaxRequests
            /\ server' = [server EXCEPT ![h] =
                    IF o.ok
                    THEN [pc |-> "opened", n |-> @.n + 1, req |-> req,
                          kv |-> StoreOf(o.st), had |-> req.key \in DOMAIN o.st.values,
                          eng |-> "none", reply |-> NoReply, out |-> NoOutput]
                    ELSE [pc |-> "idle", n |-> @.n + 1, req |-> req,
                          kv |-> NoStore, had |-> FALSE,
                          eng |-> o.reply.message, reply |-> o.reply,
                          out |-> client_main(req.op, o.reply)]]
            /\ UNCHANGED <<files, immutables, active, active_for_write,
                           active_for_read, active_entries, immutable_counter,
                           immutables_since_last_compaction, values, trace, last,
                           hist, ops, opens, written, age, sets, others, status, codec>>

\* the handler calls the store, drops it and replies; the client prints
ServeOp ==
    \E h \in {g \in Handlers : server[g].pc = "opened"} :
        LET req == server[h].req
            s == OnDirectory(server[h].kv)
        IN  \E o \in IF req.op = "get" THEN Kvs_get(s, req.key)
                      ELSE IF req.op = "set" THEN Kvs_set(s, req.key, req.value)
                      ELSE Kvs_remove(s, req.key) :
                LET srv == [server EXCEPT ![h] =
                              [@ EXCEPT !.pc = "idle", !.kv = NoStore,
                                        !.eng = o.eng, !.reply = o.reply,
                                        !.out = client_main(req.op, o.reply)]]
                    live == ServerInodes(o.st.files, o.st.immutables, o.st.active, srv)
                IN  /\ status = "closed"
                    /\ server' = srv
                    /\ files' = [f \in live |-> o.st.files[f]]
                    /\ immutables' = o.st.immutables
                    /\ active' = o.st.active
                    /\ UNCHANGED <<active_for_write, active_for_read,
                                   active_entries, immutable_counter,
                                   immutables_since_last_compaction, values, trace,
                                   last, hist, ops, opens, written, age, sets,
                                   others, status, codec>>

ServerNext == RequestOp \/ ServeOp

\* the server: handlers that each open a store on the directory for their
\* request, with nothing that makes one wait for another
ServerSpec == (Created("closed") /\ codec = NoCodec) /\ [][ServerNext]_vars

\* tests::test_roundtrip, lines 240-241: serialize(&cmd).as_bytes()
SerializeOp ==
    /\ codec.pc = "cmd"
    /\ codec' = [codec EXCEPT !.pc = "wire", !.wire = as_bytes(serialize(codec.cmd))]
    /\ UNCHANGED <<files, immutables, active, active_for_write, active_for_read,
                   active_entries, immutable_counter,
                   immutables_since_last_compaction, values, trace, last, hist,
                   ops, opens, written, age, sets, others, status, server>>

\* tests::test_roundtrip, line 242: deserialize(&mut bytes)
DeserializeOp ==
    /\ codec.pc = "wire"
    /\ codec' = [codec EXCEPT !.pc = "parsed", !.parsed = deserialize(codec.wire)]
    /\ UNCHANGED <<files, immutables, active, active_for_write, active_for_read,
                   active_entries, immutable_counter,
                   immutables_since_last_compaction, values, trace, last, hist,
                   ops, opens, written, age, sets, others, status, server>>

CodecNext == SerializeOp \/ DeserializeOp

\* a command, of those the bounds allow, is serialized and deserialized
CodecInit ==
    /\ Created("none")
    /\ codec \in {[NoCodec EXCEPT !.pc = "cmd", !.cmd = c] : c \in Commands}

CodecSpec == CodecInit /\ [][CodecNext]_vars

LongSetOp == SetWithin(MaxLongOps)

LongRemoveOp == RemoveWithin(MaxLongOps)

LongNext == LongSetOp \/ LongRemoveOp

\* one store instance that lives for more operations
LongSpec == Init /\ [][LongNext]_vars

\* a store that has lived long: its first AgedWarmOps operations set the
\* key "x", which takes the counter of the segments to 7; the operations
\* after them are any
AgedWarmOp == ops < AgedWarmOps /\ SetWithin(AgedWarmOps) /\ last'.key = "x"

AgedSetOp == ops >= AgedWarmOps /\ SetWithin(MaxAgedOps)

AgedRemoveOp == ops >= AgedWarmOps /\ RemoveWithin(MaxAgedOps)

AgedNext == AgedWarmOp \/ AgedSetOp \/ AgedRemoveOp

AgedSpec == Init /\ [][AgedNext]_vars

\* ------------------------------------------------------------------ claims

\* the segments of the directory in segment order: the immutable segments
\* by ascending counter, then db.active
RECURSIVE Ascending(_)
Ascending(S) ==
    IF S = {} THEN <<>>
    ELSE LET m == CHOOSE c \in S : \A d \in S : c <= d
         IN  <<m>> \o Ascending(S \ {m})

SegmentOrder == [i \in 1..Cardinality(DOMAIN immutables) |->
                    files[immutables[Ascending(DOMAIN immutables)[i]]]]
                \o <<files[active]>>

\* a step of the last operation of the given kind
Steps(ev) == {i \in 1..Len(trace) : trace[i].ev = ev}

\* C1: read-your-writes within one store instance: when the last mutation
\* of a key by this instance is a successful set(k, v), get(k) is Some(v)
C1_ReadYourWrites ==
    \A k \in Keys : hist[k][1] = "set" => get(Cur, k) = Some(hist[k][2])

\* C1 witness: a key set earlier is read back after a later operation on
\* another key compacted away the file its index entry refers to
C1_Witness ==
    \E k \in Keys :
        /\ hist[k][1] = "set"
        /\ last.op \in {"set", "remove"} /\ last.key # k /\ last.res = "Ok"
        /\ \E i \in Steps("compact_file") : trace[i].flag /\ k \in trace[i].held
        /\ get(Cur, k) = Some(hist[k][2])

\* C2: remove erases: when the last mutation of a key by this instance is
\* a successful remove(k), get(k) is None
C2_RemoveErases ==
    \A k \in Keys : hist[k][1] = "remove" => get(Cur, k) = None

\* C2 witness: a key removed earlier is absent after a later operation on
\* another key ran a rotation and a compaction
C2_Witness ==
    \E k \in Keys :
        /\ hist[k][1] = "remove"
        /\ last.op \in {"set", "remove"} /\ last.key # k /\ last.res = "Ok"
        /\ Steps("rotate") # {} /\ Steps("compact") # {}
        /\ get(Cur, k) = None

\* C3: persistence: after the store is dropped and opened again, get of
\* every key returns what it returned before
C3_Persistence ==
    last.op = "open" => \A k \in Keys : get(Cur, k) = last.before[k]

\* C4: rotation and compaction are transparent: get of every key returns
\* the same before and after every rotation step, every compaction of one
\* file and every whole compaction
C4_Transparent ==
    \A i \in Steps("rotate") \cup Steps("compact_file") \cup Steps("compact") :
        trace[i].pre = trace[i].post

\* C4 witness: a compaction deleted a file that an index entry refers to,
\* and a rotation moved a file that an index entry refers to
C4_Witness ==
    /\ \E i \in Steps("compact_file") :
          /\ trace[i].flag
          /\ \E k \in trace[i].held : trace[i].post[k][1] = "Some"
    /\ \E i \in Steps("rotate") :
          \E k \in trace[i].held : trace[i].post[k][1] = "Some"

\* C5: remove of a key that is not in the index returns KeyNotFound and
\* changes nothing: no step is taken (no record written, no rotation, no
\* compaction) and the index, the counters and every file are as before
C5_RemoveMissing ==
    [][(last'.op = "remove" /\ last'.key \notin DOMAIN values)
        => /\ last'.res = "KeyNotFound"
           /\ trace' = <<>>
           /\ UNCHANGED <<files, immutables, active, active_for_write,
                          active_for_read, active_entries, immutable_counter,
                          immutables_since_last_compaction, values>>]_vars

\* C5 witness: remove of an absent key returned KeyNotFound on a store
\* whose active segment is full, so that an append would have rotated
C5_Witness ==
    /\ last.op = "remove" /\ last.res = "KeyNotFound"
    /\ active_entries >= FILE_ROTATION_TRESHOLD
    /\ immutables_since_last_compaction + 1 >= COMPACTION_TRESHOLD

\* the files the directory names: db.active and the immutable segments
LinkedInodes == {active} \cup {immutables[n] : n \in DOMAIN immutables}

\* the Set records for a key in the files of the directory
SetsOnDisk(k) ==
    UNION {{files[f][i] : i \in {j \in 1..Len(files[f]) :
                                    files[f][j].type = "Set" /\ files[f][j].key = k}}
             : f \in LinkedInodes}

\* C6: compaction never loses live data: for every key in the index, a
\* file of the directory holds a Set record for the key with the indexed
\* version and the value that get returns
C6_LiveDataOnDisk ==
    \A k \in DOMAIN values :
        \E r \in SetsOnDisk(k) :
            r.version = values[k].version /\ get(Cur, k) = Some(r.value)

\* C7: space reclamation: a Set record that was overwritten or removed is
\* no longer in any file of the directory once ReclaimBound further set
\* and remove operations have succeeded
C7_Reclaimed ==
    \A v \in DOMAIN age : age[v] < ReclaimBound

RECURSIVE Concat(_)
Concat(segs) == IF segs = <<>> THEN <<>> ELSE Head(segs) \o Concat(Tail(segs))

\* C8: version monotonicity: of two Set records for one key, the one that
\* comes earlier in segment order has the strictly smaller version
C8_VersionMonotonic ==
    LET log == Concat(SegmentOrder)
    IN  \A i, j \in 1..Len(log) :
            (/\ i < j
             /\ log[i].type = "Set" /\ log[j].type = "Set"
             /\ log[i].key = log[j].key)
                => log[i].version < log[j].version

\* the number of records in each file of the directory
SegmentSizes == {Len(files[f]) : f \in LinkedInodes}

\* C9: append always targets a segment with capacity: whenever a record is
\* written the active segment holds fewer than FILE_ROTATION_TRESHOLD
\* records, so no segment holds more than FILE_ROTATION_TRESHOLD records
C9_WriteHasCapacity ==
    /\ \A i \in Steps("write") : trace[i].n < FILE_ROTATION_TRESHOLD
    /\ \A n \in SegmentSizes : n <= FILE_ROTATION_TRESHOLD

\* C9 as amended: whenever a record is written the active segment holds
\* at most FILE_ROTATION_TRESHOLD records, and fewer than that when the
\* record is re-appended by a compaction or when the operation ran no
\* compaction; no segment holds more than FILE_ROTATION_TRESHOLD + 1 records
C9_WriteAfterCompaction ==
    /\ \A i \in Steps("write") :
          /\ trace[i].n <= FILE_ROTATION_TRESHOLD
          /\ (trace[i].flag \/ Steps("compact") = {})
                => trace[i].n < FILE_ROTATION_TRESHOLD
    /\ \A n \in SegmentSizes : n <= FILE_ROTATION_TRESHOLD + 1

\* C9 witness: the record of a set or remove was written to an active
\* segment that the compaction run by the same operation had filled, and
\* the segment now holds FILE_ROTATION_TRESHOLD + 1 records
C9_Witness ==
    /\ \E i \in Steps("write") :
          ~trace[i].flag /\ trace[i].n = FILE_ROTATION_TRESHOLD
    /\ \E i \in Steps("write") : trace[i].flag
    /\ Len(files[active]) = FILE_ROTATION_TRESHOLD + 1

RECURSIVE LastCommand(_, _)
\* the last record for a key in a log, "None" if there is none
LastCommand(log, k) ==
    IF log = <<>> THEN "None"
    ELSE IF log[Len(log)].key = k THEN log[Len(log)].type
    ELSE LastCommand(SubSeq(log, 1, Len(log) - 1), k)

\* the records in the order open replayed them: the immutable segments in
\* the order read_dir yielded them, then db.active
Replayed ==
    Concat([i \in 1..Len(last.order) |-> files[immutables[last.order[i]]]])
        \o files[active]

\* C10: after open the index holds exactly the keys whose last record in
\* replay order is a Set: a Remove erases the key whichever segment its
\* Set is in
C10_OpenReplays ==
    last.op = "open" =>
        DOMAIN values = {k \in Keys : LastCommand(Replayed, k) = "Set"}

\* the inodes of the segments of the directory in segment order
SegmentInodes == [i \in 1..Cardinality(DOMAIN immutables) |->
                    immutables[Ascending(DOMAIN immutables)[i]]]
                 \o <<active>>

\* the newest segment, in segment order, whose last record for a key is a Set
NewestWith(k) ==
    LET at == {i \in 1..Len(SegmentInodes) :
                  LastCommand(files[SegmentInodes[i]], k) = "Set"}
    IN  SegmentInodes[CHOOSE i \in at : \A j \in at : j <= i]

\* C11: open replays the immutable segments by ascending counter and
\* db.active last, so the index entry of a key refers to the newest
\* segment that contributes a Set record for the key
C11_AscendingReplay ==
    last.op = "open" =>
        /\ last.order = Ascending(DOMAIN immutables)
        /\ \A k \in DOMAIN values : values[k].file = NewestWith(k)

\* the records of a file that start at a byte offset
RecordsAt(recs, offset) == {recs[i] : i \in {j \in 1..Len(recs) : StartOf(recs, j) = offset}}

\* C12 (I1): for every key in the index, the record at the offset of the
\* entry, in the file the entry holds, is a Set for that key with the
\* version of the entry
C12_IndexPointsAtRecord ==
    \A k \in DOMAIN values :
        RecordsAt(files[values[k].file], values[k].offset)
            = {CommandSet(k, r.value, values[k].version) :
                 r \in RecordsAt(files[values[k].file], values[k].offset)}
        /\ RecordsAt(files[values[k].file], values[k].offset) # {}

\* C12 witness: an entry that open loaded from an immutable segment, for
\* a record that is not the first of its file, still refers to that file
\* after the compaction run by a later set deleted it
C12_Witness ==
    /\ opens > 0 /\ last.op = "set" /\ last.res = "Ok"
    /\ \E k \in DOMAIN values :
          /\ hist[k][1] = "none"
          /\ values[k].offset > 0
          /\ values[k].file \notin LinkedInodes

\* the number of records in the segments before the i-th in segment order
SegmentStart(i) == Len(Concat(SubSeq(SegmentOrder, 1, i - 1)))

\* the position, in the on-disk log in segment order, of the Set record
\* that the index entry of a key refers to; when the entry refers to a
\* file that is no longer in the directory, the position of the last copy
\* of the record (the Set for the key with the version of the entry)
IndexedPosition(k) ==
    LET log == Concat(SegmentOrder)
        here == {p \in 1..Len(log) :
                    \E i \in 1..Len(SegmentInodes) :
                        /\ SegmentInodes[i] = values[k].file
                        /\ p > SegmentStart(i)
                        /\ p <= SegmentStart(i) + Len(files[SegmentInodes[i]])
                        /\ StartOf(files[SegmentInodes[i]], p - SegmentStart(i))
                              = values[k].offset}
        copies == {p \in 1..Len(log) :
                    /\ log[p].type = "Set" /\ log[p].key = k
                    /\ log[p].version = values[k].version}
    IN  IF values[k].file \in LinkedInodes THEN here
        ELSE {p \in copies : \A q \in copies : q <= p}

\* C13 (I2): for every key in the index, with version v, the on-disk log
\* holds no Set for the key with a version above v and no Remove for the
\* key later in segment order than the indexed Set
C13_LiveRecord ==
    LET log == Concat(SegmentOrder)
    IN  \A k \in DOMAIN values :
            \A p \in 1..Len(log) :
                log[p].key = k =>
                    /\ log[p].type = "Set" => log[p].version <= values[k].version
                    /\ log[p].type = "Remove" => \A q \in IndexedPosition(k) : p < q

\* C14: per-key versions: the n-th Set that set writes for a key carries
\* the version n - 1, whether or not the key was removed in between
C14_VersionCounts ==
    (last.op = "set" /\ last.res = "Ok")
        => values[last.key].version = sets[last.key] - 1

\* C15 (I3): every rotation names the new segment with a counter above
\* the counter of every immutable segment of the directory, so that it
\* overwrites none; no immutable segment has a counter above
\* immutable_counter, also after open; and immutable_counter never
\* decreases while a store instance lives
C15_CounterInvariant ==
    [][/\ \A i \in Steps("rotate")' : trace'[i].flag
       /\ \A n \in DOMAIN immutables' : n <= immutable_counter'
       /\ last'.op # "open" => immutable_counter' >= immutable_counter]_vars

\* C15 witness: a store opened on a directory with segments rotates when
\* the directory holds an immutable segment and compaction has deleted
\* another one before
C15_Witness ==
    /\ opens > 0 /\ last.op \in {"set", "remove"}
    /\ \E i \in Steps("rotate") : trace[i].n >= 3 /\ trace[i].flag
    /\ Cardinality(DOMAIN immutables) = 2

\* C16: a segment file stays in the directory as long as an index entry
\* refers to it: the file of every index entry is db.active or an
\* immutable segment of the directory
C16_ReferencedFilesExist ==
    \A k \in DOMAIN values : values[k].file \in LinkedInodes

\* the result of get for a key whose last successful mutation wrote v
\* (0: the key was never set, or was removed)
Latest(v) == IF v = 0 THEN None ELSE Some(v)

\* C17: when a compaction completes, the files of the directory hold at
\* most one Set record for every key, and get of every key returns the
\* value last set for it (None for the key that the running remove erases)
C17_OneSetPerKey ==
    [][\A i \in Steps("compact")' :
          /\ trace'[i].n <= 1
          /\ \A k \in Keys :
                trace'[i].post[k] =
                    IF last'.op = "remove" /\ last'.key = k THEN None
                    ELSE Latest(written[k])]_vars

\* C18: rotation shape: the directory names one db.active, distinct from
\* every immutable segment; every rotation increments immutable_counter
\* and immutables_since_last_compaction by one, adds the one segment
\* <immutable_counter>.immutable, which holds the records db.active held,
\* leaves every other segment as it was and leaves an empty db.active
\* with active_entries = 0; and FILE_ROTATION_TRESHOLD + 1 sets on a
\* fresh store leave db.active and 1.immutable only
C18_RotationShape ==
    /\ active \in DOMAIN files
    /\ \A n \in DOMAIN immutables : immutables[n] # active
    /\ \A i \in Steps("rotate") :
          LET a == trace[i].before
              b == trace[i].after
              c == b.immutable_counter
          IN  /\ c = a.immutable_counter + 1
              /\ c \notin DOMAIN a.segments
              /\ DOMAIN b.segments = DOMAIN a.segments \cup {c}
              /\ \A n \in DOMAIN a.segments : b.segments[n] = a.segments[n]
              /\ b.segments[c] = a.active
              /\ b.active = <<>>
              /\ b.active_entries = 0
              /\ b.immutables_since_last_compaction
                    = a.immutables_since_last_compaction + 1
    /\ (/\ opens = 0 /\ ops = FILE_ROTATION_TRESHOLD + 1
        /\ \A k \in Keys : hist[k][1] # "remove"
        /\ sets["x"] + sets["y"] = ops)
          => DOMAIN immutables = {1}

\* C18 witness: one operation rotated twice, at the start of its append
\* and again while its compaction re-appended retained records, the
\* second time with other immutable segments in the directory
C18_Witness ==
    \E i, j \in Steps("rotate") :
        /\ i < j
        /\ trace[j].before.active # <<>>
        /\ DOMAIN trace[j].before.segments # {}

\* what get returns for every key once the store s is dropped and opened
\* again, when fs::read_dir yields the segments by ascending counter
GetsReopened(s) ==
    {Gets(r.st) : r \in {q \in open(s) : q.order = Ascending(DOMAIN s.immutables)}}

\* C19: a repeated set is idempotent: in a state reached by set(k, v), a
\* second set(k, v) leaves get of every key as it is, in this instance
\* and in one that opens the directory afterwards
C19_SetTwice ==
    (last.op = "set" /\ last.res = "Ok") =>
        \A o \in set(Cur, last.key, last.value) :
            /\ Gets(o.st) = Gets(Cur)
            /\ GetsReopened(o.st) = GetsReopened(Cur)

\* whether a file name reads <stem>.immutable, the stem not empty
EndsInImmutable(name) ==
    /\ Len(name) >= 3
    /\ name[Len(name)] = "immutable"
    /\ name[Len(name) - 1] = "."

\* whether the stem of such a name is an unsigned integer
StemIsUnsigned(name) ==
    LET stem == SubSeq(name, 1, Len(name) - 2)
        digits == IF stem[1] = "+" THEN Tail(stem) ELSE stem
    IN  /\ digits # <<>>
        /\ \A i \in 1..Len(digits) :
              digits[i] \in {"0", "1", "2", "3", "4", "5", "6", "7", "8", "9"}

\* C20: open returns a Consistency error and no store when the directory
\* holds a file <stem>.immutable whose stem is not an unsigned integer;
\* otherwise it succeeds, and the store it returns is the one it returns
\* for the directory without the other files
C20_OpenChecksNames ==
    last.op = "open" =>
        IF \E name \in others : EndsInImmutable(name) /\ ~StemIsUnsigned(name)
        THEN last.res = "Consistency" /\ status = "none"
        ELSE /\ last.res = "Ok" /\ status = "open"
             /\ \E o \in open(Cur) :
                   /\ o.order = last.order
                   /\ values = o.st.values
                   /\ active_entries = o.st.active_entries
                   /\ immutable_counter = o.st.immutable_counter

\* C20 witness: open failed on a directory that holds segments of the
\* store, a file with the extension and an unparsable stem, and a file
\* without the extension
C20_Witness ==
    /\ last.op = "open" /\ last.res = "Consistency" /\ status = "none"
    /\ DOMAIN immutables # {}
    /\ \E name \in others : EndsInImmutable(name)
    /\ \E name \in others : ~EndsInImmutable(name)

\* C21: get of an indexed key returns the value of the record at the
\* indexed offset when that record is a Set for the key, and a
\* Consistency error when it is anything else or is missing
C21_GetChecksRecord ==
    (last.op = "get" /\ last.key \in DOMAIN values) =>
        LET at == RecordsAt(files[values[last.key].file], values[last.key].offset)
        IN  IF \E r \in at : r.type = "Set" /\ r.key = last.key
            THEN \E r \in at : last.res = Some(r.value)
            ELSE last.res = ConsistencyError

\* the places of the records that a scan is to retain: the Set records
\* whose key is in the index with the version of the record
Retainable(e) ==
    {i \in 1..Len(e.scanned) :
        /\ e.scanned[i].type = "Set"
        /\ e.scanned[i].key \in DOMAIN e.index
        /\ e.scanned[i].version = e.index[e.scanned[i].key]}

\* C24: compaction classification: the scan of a segment counts as
\* dropped exactly the records that are not a Set whose key is in the
\* index with the version of the record, and every command it retains is
\* such a Set, one for every key that has one
C24_Classification ==
    \A i \in Steps("compact_file") :
        LET e == trace[i]
        IN  /\ e.dropped = Len(e.scanned) - Cardinality(Retainable(e))
            /\ e.kept \subseteq {e.scanned[j] : j \in Retainable(e)}
            /\ {c.key : c \in e.kept} = {e.scanned[j].key : j \in Retainable(e)}

\* C24 witness: one compaction retained a Set of a segment next to a Set
\* with an outdated version, and met a Remove and a Set whose key is not
\* in the index
C24_Witness ==
    /\ \E i \in Steps("compact_file") :
          LET e == trace[i]
          IN  /\ Retainable(e) # {}
              /\ \E j \in 1..Len(e.scanned) :
                    /\ e.scanned[j].type = "Set"
                    /\ e.scanned[j].key \in DOMAIN e.index
                    /\ e.scanned[j].version # e.index[e.scanned[j].key]
    /\ \E i \in Steps("compact_file") : \E j \in 1..Len(trace[i].scanned) :
          /\ trace[i].scanned[j].type = "Set"
          /\ trace[i].scanned[j].key \notin DOMAIN trace[i].index
    /\ \E i \in Steps("compact_file") : \E j \in 1..Len(trace[i].scanned) :
          trace[i].scanned[j].type = "Remove"

\* the commands appended on behalf of the segment compacted at step i of
\* the last operation: the writes since the previous segment was done
Reappended(i) ==
    LET from == {j \in Steps("compact_file") : j < i}
        span == {j \in Steps("write") :
                    j < i /\ trace[j].flag /\ \A f \in from : f < j}
    IN  [j \in span |-> trace[j].cmd]

\* a segment of the last compaction is left in place with nothing
\* appended when no record of it is dropped; otherwise every Set of it
\* that is to be retained is appended, once, and the file is deleted
AllOrNothing ==
    \A i \in Steps("compact_file") :
        LET e == trace[i]
            w == Reappended(i)
        IN  IF e.dropped = 0
            THEN /\ ~e.flag
                 /\ e.after = e.before
                 /\ DOMAIN w = {}
            ELSE /\ e.flag
                 /\ e.n \notin DOMAIN e.after.segments
                 /\ \A m \in DOMAIN e.before.segments \ {e.n} :
                        /\ m \in DOMAIN e.after.segments
                        /\ e.after.segments[m] = e.before.segments[m]
                 /\ Cardinality(DOMAIN w) = Cardinality(Retainable(e))
                 /\ {w[j] : j \in DOMAIN w} = {e.scanned[j] : j \in Retainable(e)}

\* C25: compaction is all-or-nothing per segment, and an immutable file
\* leaves the directory only by the compaction of that file
C25_AllOrNothing ==
    [][/\ AllOrNothing'
       /\ \A n \in DOMAIN immutables \ DOMAIN immutables' :
             \E i \in Steps("compact_file")' : trace'[i].n = n /\ trace'[i].flag]_vars

\* C26: when the last operation compacted a segment away, every key whose
\* index entry referred to that segment has an entry that refers to a file
\* of the directory: the re-append moved the entry to the active segment
C26_ReappendMovesEntry ==
    \A i \in Steps("compact_file") :
        trace[i].flag =>
            \A k \in trace[i].held \cap DOMAIN values :
                values[k].file \in LinkedInodes

\* C27: compaction processes the immutable segments in ascending order of
\* their counters: of two segments the last operation compacted, the one
\* done first has the smaller counter, also when the counters are 9 and 10
C27_AscendingCompaction ==
    \A i, j \in Steps("compact_file") : i < j => trace[i].n < trace[j].n

\* C28: dropping the Remove records is safe: at the end of every
\* compaction no file of the directory holds a Set record for a key that
\* is absent from the index
C28_NoOrphanSets ==
    \A i \in Steps("compact") : trace[i].orphans = {}

\* C28 witness: a compaction dropped a Remove of a key that is absent from
\* the index, together with a Set of that key
C28_Witness ==
    \E c \in Steps("compact") : \E k \in Keys :
        /\ k \notin DOMAIN values
        /\ \E i \in Steps("compact_file") : \E j \in 1..Len(trace[i].scanned) :
              /\ i < c /\ trace[i].flag /\ k \notin DOMAIN trace[i].index
              /\ trace[i].scanned[j] = CommandRemove(k)
        /\ \E i \in Steps("compact_file") : \E j \in 1..Len(trace[i].scanned) :
              /\ i < c /\ trace[i].flag
              /\ trace[i].scanned[j].type = "Set" /\ trace[i].scanned[j].key = k

\* the rotations that the appends of the compaction ending at step c made:
\* they found the compaction due
RotationsWithin(c) ==
    {j \in Steps("rotate") :
        /\ j < c
        /\ trace[j].before.immutables_since_last_compaction >= COMPACTION_TRESHOLD}

\* C29: a compaction is not re-entered and ends: an operation compacts at
\* most once, every append of the compaction is made with compaction
\* switched off, the segments it visits are the immutable segments that
\* existed when it started, each once, and when it ends
\* immutables_since_last_compaction is 0 whatever rotations it made
C29_CompactionOnce ==
    /\ Cardinality(Steps("compact")) <= 1
    /\ \A c \in Steps("compact") :
          LET visits == {i \in Steps("compact_file") : i < c}
          IN  /\ \A j \in Steps("write") : j < c => trace[j].flag
              /\ \A i, j \in visits : trace[i].n = trace[j].n => i = j
              /\ {trace[i].n : i \in visits} = DOMAIN trace[c].before.segments
              /\ trace[c].after.immutables_since_last_compaction = 0
              /\ immutables_since_last_compaction = 0

\* C29 witness: an append of the compaction rotated the active segment,
\* and the segment it made was not visited
C29_Witness ==
    \E c \in Steps("compact") : \E j \in RotationsWithin(c) :
        /\ trace[j].after.immutable_counter \in DOMAIN trace[c].after.segments
        /\ \A i \in Steps("compact_file") :
              trace[i].n # trace[j].after.immutable_counter

\* the entries of an index: for every key the offset and the version
Entries(v) == [k \in DOMAIN v |-> <<v[k].offset, v[k].version>>]

\* C30: a set or remove that returns an error raised before its record is
\* written (by the rotation, the compaction or the encoding) leaves the
\* index with exactly the entries it had before the call
C30_FailedMutationKeepsIndex ==
    [][(/\ last'.op \in {"set", "remove"}
        /\ last'.res \in {"IOError", "SerializationError"})
          => Entries(values') = Entries(values)]_vars

\* the handlers that have replied to a request
Replied == {h \in Handlers : server[h].pc = "idle" /\ server[h].req.op # "none"}

\* C22: get of a key that the store does not have is answered by a
\* GetReply without a value, for which the client prints "Key not found"
\* on stdout and exits with 0; remove of such a key is answered by
\* RemoveReply { removed: false }, not by an error, for which the client
\* prints "Key not found" on stderr and exits with 1; every other error of
\* the store is answered by a Status with the code Internal
C22_AbsentKeys ==
    \A h \in Replied :
        LET r == server[h]
        IN  /\ (r.req.op = "get" /\ r.eng = "None") =>
                  /\ r.reply = GetReply(None)
                  /\ r.out = [stdout |-> <<"Key not found">>, stderr |-> <<"">>,
                              exit |-> 0]
            /\ (r.req.op = "remove" /\ r.eng = "KeyNotFound") =>
                  /\ r.reply = RemoveReply(FALSE)
                  /\ r.out = [stdout |-> <<"">>, stderr |-> <<"Key not found">>,
                              exit |-> 1]
            /\ r.eng \in {"Consistency", "Err", "IOError", "SerializationError"} =>
                  r.reply.kind = "Status" /\ r.reply.code = "Internal"

\* C22 witness: the server has answered a remove of an absent key, and a
\* get of an absent key or a request in which the store returned an error
C22_Witness ==
    \E g, h \in Replied :
        /\ server[g].req.op = "remove" /\ server[g].eng = "KeyNotFound"
        /\ ~server[g].had
        /\ \/ server[h].req.op = "get" /\ server[h].eng = "None" /\ ~server[h].had
           \/ server[h].eng \in {"Consistency", "IOError"}

\* C23: at most one store is open on the data directory at any moment
C23_OneStoreOpen ==
    Cardinality({h \in Handlers : server[h].pc = "opened"}) <= 1

\* C31: active_entries is the number of records of db.active after open
\* and after every operation; every append of the last operation added one
\* to it and every rotation set it to 0
C31_ActiveEntries ==
    /\ status = "open" => active_entries = Len(files[active])
    /\ \A i \in Steps("write") :
          /\ trace[i].entries = trace[i].n + 1
          /\ trace[i].entries = Len(trace[i].file_after)
    /\ \A i \in Steps("rotate") : trace[i].after.active_entries = 0

\* C31 witness: a store opened on a db.active with records has appended,
\* and a store has appended after a rotation and a compaction that
\* appended too
C31_Witness ==
    /\ opens > 0
    /\ \E i \in Steps("rotate") : \E j, k \in Steps("write") :
          i < j /\ j < k /\ trace[j].flag /\ ~trace[k].flag
    /\ active_entries > 1

\* the version that set gives to the record for a key, from the index it
\* finds
NextVersion(k) == IF k \in DOMAIN values THEN values[k].version + 1 ELSE 0

DirectorySteps == Steps("rotate") \cup Steps("compact_file") \cup Steps("compact")

\* C33: appending is append-only: every append of an operation leaves the
\* records the file had before it in place, writes its one record after
\* them and returns the length the file had; and no step and no operation
\* changes the records of an immutable segment
C33_AppendOnly ==
    [][/\ \A i \in Steps("write")' :
             /\ trace'[i].file_after = Append(trace'[i].file_before, trace'[i].cmd)
             /\ trace'[i].offset = FileLen(trace'[i].file_before)
       /\ \A i \in DirectorySteps' :
             \A n \in DOMAIN trace'[i].before.segments
                        \cap DOMAIN trace'[i].after.segments :
                 trace'[i].after.segments[n] = trace'[i].before.segments[n]
       /\ \A n \in DOMAIN immutables \cap DOMAIN immutables' :
             files'[immutables'[n]] = files[immutables[n]]]_vars

\* C33 witness: the last operation appended to a segment that had records,
\* more than once, while the directory held an immutable segment that it
\* left in place
C33_Witness ==
    /\ \E i, j \in Steps("write") :
          i < j /\ trace[i].file_before # <<>> /\ trace[j].file_before # <<>>
    /\ \E i \in Steps("compact_file") :
          ~trace[i].flag /\ trace[i].n \in DOMAIN immutables

\* C34: after open and after every set or remove that returns Ok,
\* immutables_since_last_compaction is below COMPACTION_TRESHOLD: when a
\* rotation of the operation took it to the threshold, the operation
\* compacted after it
C34_BelowThreshold ==
    /\ (status = "open" /\ last.op \in {"open", "set", "remove"} /\ last.res = "Ok")
          => immutables_since_last_compaction < COMPACTION_TRESHOLD
    /\ \A i \in Steps("rotate") :
          (/\ trace[i].before.immutables_since_last_compaction < COMPACTION_TRESHOLD
           /\ trace[i].after.immutables_since_last_compaction >= COMPACTION_TRESHOLD)
              => \E c \in Steps("compact") : i < c

\* C34 witness: a rotation of the last operation took the count to the
\* threshold, and a store has been opened on a directory with segments
C34_Witness ==
    /\ opens > 0
    /\ last.op \in {"set", "remove"} /\ last.res = "Ok"
    /\ \E i \in Steps("rotate") :
          trace[i].after.immutables_since_last_compaction = COMPACTION_TRESHOLD
    /\ DOMAIN immutables # {}

\* C35: a compaction starts directly after a rotation of the same append:
\* the first step of the operation is that rotation, the compaction finds
\* the directory as the rotation left it, with an empty db.active, and it
\* scans every segment of that directory as it was then
C35_CompactionAfterRotation ==
    \A c \in Steps("compact") :
        /\ trace[1].ev = "rotate"
        /\ trace[1].after = trace[c].before
        /\ trace[c].before.active = <<>>
        /\ trace[c].before.active_entries = 0
        /\ \A n \in DOMAIN trace[c].before.segments :
              \E j \in Steps("compact_file") :
                  /\ j < c /\ trace[j].n = n
                  /\ trace[j].scanned = trace[c].before.segments[n]

\* C35 witness: a store that was opened on a db.active with records has
\* compacted, and the compaction scanned a record written before the store
\* was opened
C35_Witness ==
    /\ opens > 0
    /\ \E c \in Steps("compact") :
          /\ Cardinality(DOMAIN trace[c].before.segments) > COMPACTION_TRESHOLD
          /\ trace[1].before.active # <<>>

\* C36: the codec round-trips: for every command, deserialize of the bytes
\* of serialize(cmd) is Ok(cmd)
C36_RoundTrip ==
    codec.pc = "parsed" => codec.parsed = Ok(codec.cmd)

====
